---- MODULE Spec2Model ----
(***************************************************************************)
(* QuantumCircuitData (qiskit/circuit/quantumcircuitdata.py): the          *)
(* validating list facade over QuantumCircuit._data.                       *)
(*                                                                         *)
(* The store is a sequence of CircuitInstruction records.  Python indices  *)
(* are 0-based and may be negative; TLA+ sequences are 1-based, so the     *)
(* element with Python index j is d[j + 1].                                *)
(***************************************************************************)
EXTENDS Integers, Sequences, FiniteSets, TLC

\* ------------------------------------------------------------------ bounds
\* longest store the mutating calls may build
MaxLen == 3
\* longest qubit argument list a caller passes
MaxArgs == 2
\* most repetitions asked of the * operators
MaxRepeat == 2
\* longest store of the specification whose values name classical bits
ArgMaxLen == 2

\* ------------------------------------------------------------ value domain
Qubits == {"q0"}

\* What can sit in the operation position of a value:
\*   "Operation"    an Operation that is not an Instruction
\*   "Instruction"  an Instruction (hence an Operation)
\*   "Convertible"  not an Operation, but has to_instruction()
\*   "None"         neither (the operation of insert's placeholder)
OperationKinds == {"Operation", "Instruction", "Convertible", "None"}

CircuitInstruction(operation, qubits, clbits) ==
    [operation |-> operation, qubits |-> qubits, clbits |-> clbits]

Placeholder == CircuitInstruction("None", <<>>, <<>>)

IsOperation(operation) == operation \in {"Operation", "Instruction"}

IsInstruction(operation) == operation = "Instruction"

HasToInstruction(operation) == operation = "Convertible"

ToInstruction(operation) == "Instruction"

\* An argument specifier names one bit; conversion expands it to a list.
BitSpec(b) == [bit |-> b]

SeqsUpTo(S, n) == UNION {[1..k -> S] : k \in 0..n}

QArgLists == SeqsUpTo({BitSpec(q) : q \in Qubits}, MaxArgs)

\* operation, qargs, cargs as unpacked from a CircuitInstruction or 3-tuple;
\* the values of Spec name no classical bits
Values ==
    {[operation |-> o, qargs |-> q, cargs |-> <<>>] :
        o \in OperationKinds, q \in QArgLists}

Indices == (0 - (MaxLen + 1)) .. MaxLen

\* --------------------------------------------------- the list-like store
PyIndex(n, i) == IF i < 0 THEN i + n ELSE i

InRange(n, i) == PyIndex(n, i) >= 0 /\ PyIndex(n, i) < n

InsertAt(d, pos, x) ==
    [k \in 1..(Len(d) + 1) |->
        IF k <= pos THEN d[k] ELSE IF k = pos + 1 THEN x ELSE d[k - 1]]

\* _data.insert(i, x): the index is clamped into 0..len, never an error
ListInsert(d, i, x) ==
    LET j == PyIndex(Len(d), i)
        pos == IF j < 0 THEN 0 ELSE IF j > Len(d) THEN Len(d) ELSE j
    IN  InsertAt(d, pos, x)

\* _data[i] = x
ListSet(d, i, x) ==
    IF InRange(Len(d), i)
    THEN [err |-> "ok", data |-> [d EXCEPT ![PyIndex(Len(d), i) + 1] = x]]
    ELSE [err |-> "IndexError", data |-> d]

\* del _data[i]
ListDel(d, i) ==
    IF InRange(Len(d), i)
    THEN LET p == PyIndex(Len(d), i) + 1
         IN  [err |-> "ok",
              data |-> [k \in 1..(Len(d) - 1) |-> IF k < p THEN d[k] ELSE d[k + 1]]]
    ELSE [err |-> "IndexError", data |-> d]

\* ------------------------------------------------------ circuit services
RECURSIVE Flatten(_)
Flatten(ss) == IF ss = <<>> THEN <<>> ELSE Head(ss) \o Flatten(Tail(ss))

qbit_argument_conversion(qarg) == <<qarg.bit>>

cbit_argument_conversion(carg) == <<carg.bit>>

\* Instruction.broadcast_arguments: one assignment of the flattened lists
BroadcastFlat(qargs, cargs) == << <<Flatten(qargs), Flatten(cargs)>> >>

\* the override of a single-qubit gate: one assignment per qubit; the
\* Instructions of this model broadcast this way
BroadcastEach(qargs, cargs) ==
    [k \in 1..Len(Flatten(qargs)) |-> << <<Flatten(qargs)[k]>>, <<>> >>]

HasDups(qargs) == Cardinality({qargs[k] : k \in DOMAIN qargs}) # Len(qargs)

\* --------------------------------------------------------------- resolver
CircuitErrors == {"MalformedOperation", "AmbiguousBroadcast", "DuplicateQubit"}

Raise(e) == [err |-> e, value |-> Placeholder, nbroadcast |-> 0 - 1]

broadcast_args(operation, expanded_qargs, expanded_cargs) ==
    IF IsInstruction(operation)
    THEN BroadcastEach(expanded_qargs, expanded_cargs)
    ELSE BroadcastFlat(expanded_qargs, expanded_cargs)

\* the resolver, but the instruction is built without its clbits
resolve_drop_clbits(operation0, qargs, cargs) ==
    LET operation ==
            IF ~IsOperation(operation0) /\ HasToInstruction(operation0)
            THEN ToInstruction(operation0) ELSE operation0
        expanded_qargs == [k \in DOMAIN qargs |-> qbit_argument_conversion(qargs[k])]
        expanded_cargs == [k \in DOMAIN cargs |-> cbit_argument_conversion(cargs[k])]
        bargs == broadcast_args(operation, expanded_qargs, expanded_cargs)
    IN  IF ~IsOperation(operation) THEN Raise("MalformedOperation")
        ELSE IF Len(bargs) > 1
            THEN [Raise("AmbiguousBroadcast") EXCEPT !.nbroadcast = Len(bargs)]
        ELSE IF Len(bargs) = 0
            THEN [Raise("IndexError") EXCEPT !.nbroadcast = 0]
        ELSE IF HasDups(bargs[1][1])
            THEN [Raise("DuplicateQubit") EXCEPT !.nbroadcast = 1]
        ELSE [err |-> "ok",
              value |-> CircuitInstruction(operation, bargs[1][1], <<>>),
              nbroadcast |-> 1]

\* the resolver, but the duplicate check covers the clbits as well
resolve_check_clbits(operation0, qargs, cargs) ==
    LET operation ==
            IF ~IsOperation(operation0) /\ HasToInstruction(operation0)
            THEN ToInstruction(operation0) ELSE operation0
        expanded_qargs == [k \in DOMAIN qargs |-> qbit_argument_conversion(qargs[k])]
        expanded_cargs == [k \in DOMAIN cargs |-> cbit_argument_conversion(cargs[k])]
        bargs == broadcast_args(operation, expanded_qargs, expanded_cargs)
    IN  IF ~IsOperation(operation) THEN Raise("MalformedOperation")
        ELSE IF Len(bargs) > 1
            THEN [Raise("AmbiguousBroadcast") EXCEPT !.nbroadcast = Len(bargs)]
        ELSE IF Len(bargs) = 0
            THEN [Raise("IndexError") EXCEPT !.nbroadcast = 0]
        ELSE IF HasDups(bargs[1][1]) \/ HasDups(bargs[1][2])
            THEN [Raise("DuplicateQubit") EXCEPT !.nbroadcast = 1]
        ELSE [err |-> "ok",
              value |-> CircuitInstruction(operation, bargs[1][1], bargs[1][2]),
              nbroadcast |-> 1]

\* the resolver, but the duplicate check runs on the expanded qubits before
\* the broadcast is counted
resolve_dups_first(operation0, qargs, cargs) ==
    LET operation ==
            IF ~IsOperation(operation0) /\ HasToInstruction(operation0)
            THEN ToInstruction(operation0) ELSE operation0
        expanded_qargs == [k \in DOMAIN qargs |-> qbit_argument_conversion(qargs[k])]
        expanded_cargs == [k \in DOMAIN cargs |-> cbit_argument_conversion(cargs[k])]
        bargs == broadcast_args(operation, expanded_qargs, expanded_cargs)
    IN  IF ~IsOperation(operation) THEN Raise("MalformedOperation")
        ELSE IF HasDups(Flatten(expanded_qargs))
            THEN [Raise("DuplicateQubit") EXCEPT !.nbroadcast = Len(bargs)]
        ELSE IF Len(bargs) > 1
            THEN [Raise("AmbiguousBroadcast") EXCEPT !.nbroadcast = Len(bargs)]
        ELSE IF Len(bargs) = 0
            THEN [Raise("IndexError") EXCEPT !.nbroadcast = 0]
        ELSE [err |-> "ok",
              value |-> CircuitInstruction(operation, bargs[1][1], bargs[1][2]),
              nbroadcast |-> 1]

resolve_legacy_value(operation0, qargs, cargs) ==
    LET operation ==
            IF ~IsOperation(operation0) /\ HasToInstruction(operation0)
            THEN ToInstruction(operation0) ELSE operation0
        expanded_qargs == [k \in DOMAIN qargs |-> qbit_argument_conversion(qargs[k])]
        expanded_cargs == [k \in DOMAIN cargs |-> cbit_argument_conversion(cargs[k])]
        bargs == broadcast_args(operation, expanded_qargs, expanded_cargs)
    IN  IF ~IsOperation(operation) THEN Raise("MalformedOperation")
        ELSE IF Len(bargs) > 1
            THEN [Raise("AmbiguousBroadcast") EXCEPT !.nbroadcast = Len(bargs)]
        ELSE IF Len(bargs) = 0
            THEN [Raise("IndexError") EXCEPT !.nbroadcast = 0]
        ELSE IF HasDups(bargs[1][1])
            THEN [Raise("DuplicateQubit") EXCEPT !.nbroadcast = 1]
        ELSE [err |-> "ok",
              value |-> CircuitInstruction(operation, bargs[1][1], bargs[1][2]),
              nbroadcast |-> 1]

Resolve(value) == resolve_legacy_value(value.operation, value.qargs, value.cargs)

\* ----------------------------------------------------------------- facade
\* Every handler maps the store before the call to the store after it, the
\* error raised ("ok" for a normal return) and the _update_parameter_table
\* calls made, each with the store as it was at the time of the call.
Outcome(d, e, n) == [data |-> d, err |-> e, notes |-> n]

\* setitem, but the slot is overwritten before the value is validated
setitem_write_first(d, key, value) ==
    LET r == Resolve(value)
        w == ListSet(d, key, r.value)
    IN  IF w.err # "ok" THEN Outcome(d, w.err, <<>>)
        ELSE IF r.err # "ok" THEN Outcome(w.data, r.err, <<>>)
        ELSE Outcome(w.data, "ok",
                     IF IsInstruction(r.value.operation)
                     THEN <<[value |-> r.value, seen |-> w.data]>> ELSE <<>>)

\* setitem, but the parameter table is updated for every stored operation
setitem_notify_always(d, key, value) ==
    LET r == Resolve(value)
        w == ListSet(d, key, r.value)
    IN  IF r.err # "ok" THEN Outcome(d, r.err, <<>>)
        ELSE IF w.err # "ok" THEN Outcome(d, w.err, <<>>)
        ELSE Outcome(w.data, "ok", <<[value |-> r.value, seen |-> w.data]>>)

setitem(d, key, value) ==
    LET r == Resolve(value)
        w == ListSet(d, key, r.value)
    IN  IF r.err # "ok" THEN Outcome(d, r.err, <<>>)
        ELSE IF w.err # "ok" THEN Outcome(d, w.err, <<>>)
        ELSE Outcome(w.data, "ok",
                     IF IsInstruction(r.value.operation)
                     THEN <<[value |-> r.value, seen |-> w.data]>> ELSE <<>>)

\* insert, but the CircuitError is re-raised without removing the placeholder
insert_no_rollback(d, index, value) ==
    setitem(ListInsert(d, index, Placeholder), index, value)

\* insert, but the rollback removes the first slot instead of slot index
insert_rollback_front(d, index, value) ==
    LET s == setitem(ListInsert(d, index, Placeholder), index, value)
        x == ListDel(s.data, 0)
    IN  IF s.err \in CircuitErrors
        THEN IF x.err # "ok" THEN Outcome(s.data, x.err, s.notes)
             ELSE Outcome(x.data, s.err, s.notes)
        ELSE s

\* insert, but the placeholder is appended instead of inserted at index
insert_append(d, index, value) ==
    LET s == setitem(Append(d, Placeholder), index, value)
        x == ListDel(s.data, index)
    IN  IF s.err \in CircuitErrors
        THEN IF x.err # "ok" THEN Outcome(s.data, x.err, s.notes)
             ELSE Outcome(x.data, s.err, s.notes)
        ELSE s

insert(d, index, value) ==
    LET s == setitem(ListInsert(d, index, Placeholder), index, value)
        x == ListDel(s.data, index)
    IN  IF s.err \in CircuitErrors
        THEN IF x.err # "ok" THEN Outcome(s.data, x.err, s.notes)
             ELSE Outcome(x.data, s.err, s.notes)
        ELSE s

\* delitem, but an out-of-range index removes the last element
delitem_clamped(d, i) ==
    LET x == ListDel(d, i)
    IN  IF x.err = "ok" \/ d = <<>> THEN Outcome(x.data, x.err, <<>>)
        ELSE Outcome(SubSeq(d, 1, Len(d) - 1), "ok", <<>>)

delitem(d, i) ==
    LET x == ListDel(d, i) IN Outcome(x.data, x.err, <<>>)

\* sort(key=..., reverse=...): the keys callers sort by in this model
KeyFns == {"nqubits", "operation"}

SortKey(key, x) ==
    IF key = "nqubits" THEN Len(x.qubits)
    ELSE IF x.operation = "None" THEN 0
    ELSE IF x.operation = "Operation" THEN 1 ELSE 2

Before(key, reverse, x, y) ==
    IF reverse THEN SortKey(key, x) > SortKey(key, y)
    ELSE SortKey(key, x) < SortKey(key, y)

\* list.sort is stable: x goes behind every element it is not strictly before
RECURSIVE ListSort(_, _, _)
ListSort(d, key, reverse) ==
    IF d = <<>> THEN <<>>
    ELSE LET s == ListSort(SubSeq(d, 1, Len(d) - 1), key, reverse)
             x == d[Len(d)]
             pos == Cardinality({k \in DOMAIN s : ~Before(key, reverse, x, s[k])})
         IN  InsertAt(s, pos, x)

\* sort, but reverse=True sorts ascending and then reverses the list
sort_then_reverse(d, key, reverse) ==
    LET up == ListSort(d, key, FALSE)
    IN  Outcome(IF reverse THEN [k \in 1..Len(up) |-> up[Len(up) + 1 - k]] ELSE up,
                "ok", <<>>)

\* data = list(_data); data.sort(...); _data.clear(); reserve; extend(data)
sort(d, key, reverse) ==
    LET sorted == ListSort(d, key, reverse)
        cleared == <<>>
    IN  Outcome(cleared \o sorted, "ok", <<>>)

\* _circuit._data[i]
getitem(d, i) ==
    IF InRange(Len(d), i)
    THEN [err |-> "ok", list |-> <<d[PyIndex(Len(d), i) + 1]>>, num |-> 0]
    ELSE [err |-> "IndexError", list |-> <<>>, num |-> 0]

\* len(_circuit._data)
length(d) == [err |-> "ok", list |-> <<>>, num |-> Len(d)]

\* list(_circuit._data)
copy(d) == [err |-> "ok", list |-> [k \in 1..Len(d) |-> d[k]], num |-> 0]

\* a truth value as a handler returns it
Truth(b) == [err |-> "ok", list |-> <<>>, num |-> IF b THEN 1 ELSE 0]

\* the first position at which two sequences differ (0: one is a prefix of
\* the other)
FirstDiff(a, b) ==
    LET m == IF Len(a) < Len(b) THEN Len(a) ELSE Len(b)
        diff == {k \in 1..m : a[k] # b[k]}
    IN  IF diff = {} THEN 0 ELSE CHOOSE k \in diff : \A j \in diff : k <= j

\* the comparison of two plain sequences: the first differing elements
\* decide, and the lengths when there are none; elem is what comparing
\* those elements gives
Lexicographic(a, b, bylength, elem) ==
    IF FirstDiff(a, b) = 0 THEN bylength ELSE elem

\* list(_circuit._data) < other
lt(d, other, elem) ==
    Truth(Lexicographic(copy(d).list, other, Len(d) < Len(other), elem))

\* list(_circuit._data) <= other
le(d, other, elem) ==
    Truth(Lexicographic(copy(d).list, other, Len(d) <= Len(other), elem))

\* _circuit._data == other
eq(d, other) == Truth(d = other)

\* list(_circuit._data) > other
gt(d, other, elem) ==
    Truth(Lexicographic(copy(d).list, other, Len(d) > Len(other), elem))

\* list(_circuit._data) >= other
ge(d, other, elem) ==
    Truth(Lexicographic(copy(d).list, other, Len(d) >= Len(other), elem))

\* list(_circuit._data) + other
add(d, other) == [err |-> "ok", list |-> copy(d).list \o other, num |-> 0]

\* the reflected concatenation with its operands in the order of +
radd_swapped(d, other) == [err |-> "ok", list |-> copy(d).list \o other, num |-> 0]

\* other + list(_circuit._data)
radd(d, other) == [err |-> "ok", list |-> other \o copy(d).list, num |-> 0]

\* a plain sequence repeated n times; none for n <= 0
RECURSIVE Repeat(_, _)
Repeat(l, n) == IF n <= 0 THEN <<>> ELSE l \o Repeat(l, n - 1)

\* list(_circuit._data) * n
mul(d, n) == [err |-> "ok", list |-> Repeat(copy(d).list, n), num |-> 0]

\* n * list(_circuit._data)
rmul(d, n) == [err |-> "ok", list |-> Repeat(copy(d).list, n), num |-> 0]

\* ------------------------------------------------------------------ state
\* stores        the store objects, by identity
\* circuit_data  which store object is the circuit's _data now
\* built_on      history: the store the circuit owned when each facade was
\*               constructed (0: not constructed); the facade keeps only the
\*               circuit, so no handler reads this
\* pre           the circuit's store as it was when the last call began
\* call, ret     the last call and the error it raised ("ok": none)
\* notes         the _update_parameter_table calls of the last call
\* out           what the last read-only call returned
\* held          the plain sequence object a caller holds (0: none); it lives
\*               among the store objects so that aliasing can be expressed
VARIABLES stores, circuit_data, built_on, pre, call, ret, notes, out, held

vars == <<stores, circuit_data, built_on, pre, call, ret, notes, out, held>>

StoreIds == {1, 2}

Facades == {1, 2}

\* a facade that keeps the store it found at construction
FacadeStoreCached(f) == built_on[f]

\* self._circuit._data
FacadeStore(f) == circuit_data

\* the circuit's store
Data == stores[circuit_data]

NoValue == [operation |-> "None", qargs |-> <<>>, cargs |-> <<>>]

NoOut == [list |-> <<>>, num |-> 0]

Call(op, f, index, value) == [op |-> op, facade |-> f, index |-> index, value |-> value]

Init ==
    /\ stores = [s \in StoreIds |-> <<>>]
    /\ circuit_data = 1
    /\ built_on = [f \in Facades |-> IF f = 1 THEN 1 ELSE 0]
    /\ pre = <<>>
    /\ call = Call("init", 1, 0, NoValue)
    /\ ret = "ok"
    /\ notes = <<>>
    /\ out = NoOut
    /\ held = 0

\* A mutating call through facade f returns to its caller with outcome o.
Return(c, o) ==
    /\ pre' = Data
    /\ call' = c
    /\ stores' = [stores EXCEPT ![FacadeStore(c.facade)] = o.data]
    /\ ret' = o.err
    /\ notes' = o.notes
    /\ out' = NoOut
    /\ UNCHANGED <<circuit_data, built_on, held>>

SetVia(f, keys, values) ==
    \E key \in keys, value \in values :
        Return(Call("set", f, key, value),
               setitem(stores[FacadeStore(f)], key, value))

InsertVia(f, indices, values) ==
    \E index \in indices, value \in values :
        /\ Len(stores[FacadeStore(f)]) < MaxLen
        /\ Return(Call("insert", f, index, value),
                  insert(stores[FacadeStore(f)], index, value))

DeleteVia(f, indices) ==
    \E i \in indices :
        Return(Call("delete", f, i, NoValue), delitem(stores[FacadeStore(f)], i))

SortVia(f) ==
    \E key \in KeyFns, reverse \in BOOLEAN :
        Return(Call("sort", f, IF reverse THEN 1 ELSE 0,
                    [NoValue EXCEPT !.operation = key]),
               sort(stores[FacadeStore(f)], key, reverse))

\* A read-only call through facade f returns r to its caller.
ReadReturn(c, r) ==
    /\ pre' = Data
    /\ call' = c
    /\ ret' = r.err
    /\ notes' = <<>>
    /\ out' = [list |-> r.list, num |-> r.num]
    /\ UNCHANGED <<stores, circuit_data, built_on, held>>

GetVia(f, indices) ==
    \E i \in indices :
        ReadReturn(Call("get", f, i, NoValue), getitem(stores[FacadeStore(f)], i))

LengthVia(f) == ReadReturn(Call("len", f, 0, NoValue), length(stores[FacadeStore(f)]))

CopyVia(f) == ReadReturn(Call("copy", f, 0, NoValue), copy(stores[FacadeStore(f)]))

Set == SetVia(1, Indices, Values)

Insert == InsertVia(1, Indices, Values)

Delete == DeleteVia(1, Indices)

Sort == SortVia(1)

Get == GetVia(1, Indices)

Length == LengthVia(1)

Copy == CopyVia(1)

Next == Set \/ Insert \/ Delete \/ Sort \/ Get \/ Length \/ Copy

Spec == Init /\ [][Next]_vars

\* ------------------------------------------- several facades, one circuit
\* The calls of SpecView go through either facade, the circuit may replace
\* its store between them, and the values and indices are few.
ViewValues ==
    {v \in Values : Len(v.qargs) = 1 /\ v.operation # "Convertible"}

ViewIndices == {0}

Built == {f \in Facades : built_on[f] # 0}

\* QuantumCircuitData(circuit)
NewFacade ==
    \E f \in Facades \ Built :
        /\ built_on' = [built_on EXCEPT ![f] = circuit_data]
        /\ pre' = Data
        /\ call' = Call("new", f, 0, NoValue)
        /\ ret' = "ok"
        /\ notes' = <<>>
        /\ out' = NoOut
        /\ UNCHANGED <<stores, circuit_data, held>>

\* the circuit drops its store for a new, empty one
ReplaceStore ==
    \E s \in StoreIds \ {circuit_data} :
        /\ circuit_data' = s
        /\ stores' = [t \in StoreIds |-> <<>>]
        /\ pre' = Data
        /\ call' = Call("replace", 1, 0, NoValue)
        /\ ret' = "ok"
        /\ notes' = <<>>
        /\ out' = NoOut
        /\ UNCHANGED <<built_on, held>>

ViewSet == \E f \in Built : SetVia(f, ViewIndices, ViewValues)

ViewInsert == \E f \in Built : InsertVia(f, ViewIndices, ViewValues)

ViewDelete == \E f \in Built : DeleteVia(f, ViewIndices)

ViewGet == \E f \in Built : GetVia(f, ViewIndices)

ViewLength == \E f \in Built : LengthVia(f)

ViewCopy == \E f \in Built : CopyVia(f)

NextView ==
    \/ NewFacade \/ ReplaceStore
    \/ ViewSet \/ ViewInsert \/ ViewDelete
    \/ ViewGet \/ ViewLength \/ ViewCopy

SpecView == Init /\ [][NextView]_vars

\* ------------------------------- one facade and a caller's plain sequence
\* The calls of SpecSeq go through facade 1; the caller keeps the sequence
\* copy() returned, mutates it as a plain sequence, and passes the facade
\* itself or that sequence as the other operand of the operators.
Repeats == (0 - 1)..MaxRepeat

\* the instructions a caller can put into a plain sequence
PlainValues == {Resolve(v).value : v \in {w \in ViewValues : Resolve(w).err = "ok"}}

\* copy() handing back the store itself
CopyObjectAlias(f) == FacadeStore(f)

\* the object list(...) creates: never the circuit's store
CopyObject(f) == CHOOSE s \in StoreIds : s # FacadeStore(f)

\* copy() through facade 1, whose result the caller keeps
CopyKeep ==
    LET r == copy(stores[FacadeStore(1)])
        o == CopyObject(1)
    IN  /\ held' = o
        /\ stores' = [stores EXCEPT ![o] = r.list]
        /\ pre' = Data
        /\ call' = Call("copy", 1, 0, NoValue)
        /\ ret' = r.err
        /\ notes' = <<>>
        /\ out' = [list |-> r.list, num |-> r.num]
        /\ UNCHANGED <<circuit_data, built_on>>

\* the caller changes the plain sequence it holds to l
Plain(op, l) ==
    /\ stores' = [stores EXCEPT ![held] = l]
    /\ pre' = Data
    /\ call' = Call(op, 0, 0, NoValue)
    /\ ret' = "ok"
    /\ notes' = <<>>
    /\ out' = NoOut
    /\ UNCHANGED <<circuit_data, built_on, held>>

PlainAppend ==
    /\ held # 0
    /\ Len(stores[held]) < MaxLen
    /\ \E x \in PlainValues : Plain("plain_append", Append(stores[held], x))

PlainRemove ==
    /\ held # 0
    /\ \E k \in DOMAIN stores[held] :
         Plain("plain_remove", ListDel(stores[held], k - 1).data)

PlainReplace ==
    /\ held # 0
    /\ \E k \in DOMAIN stores[held], x \in PlainValues :
         Plain("plain_replace", [stores[held] EXCEPT ![k] = x])

PlainReverse ==
    /\ held # 0
    /\ Plain("plain_reverse",
             [k \in DOMAIN stores[held] |-> stores[held][Len(stores[held]) + 1 - k]])

\* what the caller can pass as the other operand
Operands == {"facade"} \cup (IF held # 0 THEN {"plain"} ELSE {})

\* list(other._circuit._data) if other is a facade, else other itself
cast(other) ==
    IF other = "facade" THEN copy(stores[FacadeStore(1)]).list ELSE stores[held]

\* an operator call with the other operand and the integer it was given
Operator(op, other, n) == Call(op, 1, n, [NoValue EXCEPT !.operation = other])

SeqLt ==
    \E other \in Operands, elem \in BOOLEAN :
        ReadReturn(Operator("lt", other, IF elem THEN 1 ELSE 0),
                   lt(stores[FacadeStore(1)], cast(other), elem))

SeqLe ==
    \E other \in Operands, elem \in BOOLEAN :
        ReadReturn(Operator("le", other, IF elem THEN 1 ELSE 0),
                   le(stores[FacadeStore(1)], cast(other), elem))

SeqEq ==
    \E other \in Operands :
        ReadReturn(Operator("eq", other, 0), eq(stores[FacadeStore(1)], cast(other)))

SeqGt ==
    \E other \in Operands, elem \in BOOLEAN :
        ReadReturn(Operator("gt", other, IF elem THEN 1 ELSE 0),
                   gt(stores[FacadeStore(1)], cast(other), elem))

SeqGe ==
    \E other \in Operands, elem \in BOOLEAN :
        ReadReturn(Operator("ge", other, IF elem THEN 1 ELSE 0),
                   ge(stores[FacadeStore(1)], cast(other), elem))

SeqAdd ==
    \E other \in Operands :
        ReadReturn(Operator("add", other, 0), add(stores[FacadeStore(1)], cast(other)))

SeqRAdd ==
    \E other \in Operands :
        ReadReturn(Operator("radd", other, 0), radd(stores[FacadeStore(1)], cast(other)))

SeqMul ==
    \E n \in Repeats :
        ReadReturn(Operator("mul", "facade", n), mul(stores[FacadeStore(1)], n))

SeqRMul ==
    \E n \in Repeats :
        ReadReturn(Operator("rmul", "facade", n), rmul(stores[FacadeStore(1)], n))

SeqSet == SetVia(1, ViewIndices, ViewValues)

SeqInsert == InsertVia(1, ViewIndices, ViewValues)

SeqDelete == DeleteVia(1, ViewIndices)

SeqSort == SortVia(1)

SeqGet == GetVia(1, ViewIndices)

SeqLength == LengthVia(1)

NextSeq ==
    \/ SeqSet \/ SeqInsert \/ SeqDelete \/ SeqSort \/ SeqGet \/ SeqLength
    \/ CopyKeep \/ PlainAppend \/ PlainRemove \/ PlainReplace \/ PlainReverse
    \/ SeqLt \/ SeqLe \/ SeqEq \/ SeqGt \/ SeqGe
    \/ SeqAdd \/ SeqRAdd \/ SeqMul \/ SeqRMul

SpecSeq == Init /\ [][NextSeq]_vars

\* ------------------------------------------- values with classical bits
\* The calls of SpecArgs are set and insert at index 0 with values that
\* name qubits and clbits, on stores of at most ArgMaxLen instructions.
Clbits == {"c0"}

CArgLists == SeqsUpTo({BitSpec(c) : c \in Clbits}, MaxArgs)

ArgValues ==
    {[operation |-> o, qargs |-> q, cargs |-> c] :
        o \in OperationKinds, q \in QArgLists, c \in CArgLists}

ArgIndices == {0}

ArgSet == SetVia(1, ArgIndices, ArgValues)

ArgInsert == Len(Data) < ArgMaxLen /\ InsertVia(1, ArgIndices, ArgValues)

NextArgs == ArgSet \/ ArgInsert

SpecArgs == Init /\ [][NextArgs]_vars

\* ----------------------------------------------------------------- claims
Mutators == {"set", "insert", "delete", "sort"}

Resolved == Resolve(call.value)

WellFormed(x) == IsOperation(x.operation) /\ ~HasDups(x.qubits)

\* C1: whenever a facade mutation method (set, insert, delete, sort) has
\* returned to its caller, normally or with an error, no element of the
\* store is the placeholder instruction.
C1_NoPlaceholderOnReturn ==
    call.op \in Mutators => \A k \in DOMAIN Data : Data[k] # Placeholder

\* C2: insert(i, value) with 0 <= i <= n and a value the resolver rejects
\* (malformed operation, ambiguous broadcast, duplicate qubit) leaves the
\* store's length and contents as before the call and raises the resolver's
\* error.
C2_AtomicInsert ==
    (/\ call.op = "insert"
     /\ call.index \in 0..Len(pre)
     /\ Resolved.err \in CircuitErrors)
    => (Data = pre /\ ret = Resolved.err)

C2_Witness ==
    /\ call.op = "insert"
    /\ call.index \in 1..Len(pre)
    /\ Resolved.err = "DuplicateQubit"
    /\ ret = "DuplicateQubit"
    /\ \A k \in DOMAIN pre : WellFormed(pre[k])

\* C3: an insert that fails, at any integer index and for any kind of
\* failure, leaves the store's length and contents as before the call.
C3_FailedInsertChangesNothing ==
    (call.op = "insert" /\ ret # "ok") => Data = pre

\* C4: when the resolver fails during set(index, value) the store is
\* unchanged, the parameter table is not updated and the resolver's error
\* reaches the caller.
C4_FailedSetUntouched ==
    (call.op = "set" /\ Resolved.err # "ok")
    => (Data = pre /\ notes = <<>> /\ ret = Resolved.err)

C4_Witness ==
    /\ call.op = "set"
    /\ Resolved.err \in CircuitErrors
    /\ InRange(Len(pre), call.index)
    /\ WellFormed(pre[PyIndex(Len(pre), call.index) + 1])
    /\ ret = Resolved.err

\* C5: after any sequence of facade calls from the empty store every stored
\* instruction has an operation with the Operation capability and pairwise
\* distinct qubits, and a set or insert whose resolved qubit list repeats a
\* reference fails with DuplicateQubit and writes nothing.
C5_StoreWellFormed ==
    /\ \A k \in DOMAIN Data : WellFormed(Data[k])
    /\ (call.op \in {"set", "insert"} /\ Resolved.err = "DuplicateQubit")
       => (ret = "DuplicateQubit" /\ Data = pre)

\* C6: from the empty store insert(0, A) gives [A], then insert(0, B) gives
\* [B, A], then insert(1, malformed) raises MalformedOperation and leaves
\* [B, A]: each step of the scenario, from the store the step before
\* leaves.
C6_Scenario ==
    /\ (call.op = "insert" /\ call.index = 0 /\ Len(pre) <= 1
        /\ Resolved.err = "ok")
       => (ret = "ok" /\ Data = <<Resolved.value>> \o pre)
    /\ (call.op = "insert" /\ call.index = 1 /\ Len(pre) = 2
        /\ Resolved.err = "MalformedOperation")
       => (ret = "MalformedOperation" /\ Data = pre /\ Len(Data) = 2)

C6_Witness ==
    /\ call.op = "insert"
    /\ call.index = 1
    /\ Len(pre) = 2
    /\ WellFormed(pre[1]) /\ WellFormed(pre[2]) /\ pre[1] # pre[2]
    /\ ret = "MalformedOperation"
    /\ Data = pre

\* the assignments the operation of a value broadcasts its operands to
BroadcastOf(value) ==
    broadcast_args(
        IF HasToInstruction(value.operation)
        THEN ToInstruction(value.operation) ELSE value.operation,
        [k \in DOMAIN value.qargs |-> qbit_argument_conversion(value.qargs[k])],
        [k \in DOMAIN value.cargs |-> cbit_argument_conversion(value.cargs[k])])

Broadcasts(value) == IsOperation(value.operation) \/ HasToInstruction(value.operation)

\* C7: a set or insert whose operation and operands broadcast to k >= 2
\* assignments fails with AmbiguousBroadcast, and none of the assignments
\* is written to the store.
C7_BroadcastRejected ==
    (/\ call.op \in {"set", "insert"}
     /\ Broadcasts(call.value)
     /\ Len(BroadcastOf(call.value)) >= 2)
    => /\ ret = "AmbiguousBroadcast"
       /\ \A k \in DOMAIN Data : Data[k] \in {pre[j] : j \in DOMAIN pre} \cup {Placeholder}

\* C8: a successful insert(i, value) with 0 <= i <= n gives a store of
\* length n + 1 with the resolved instruction at position i, the elements
\* below i unchanged and the elements formerly at i..n-1 at i+1..n.
C8_InsertShifts ==
    (call.op = "insert" /\ ret = "ok" /\ call.index \in 0..Len(pre))
    => /\ Len(Data) = Len(pre) + 1
       /\ Data[call.index + 1] = Resolved.value
       /\ \A k \in 1..call.index : Data[k] = pre[k]
       /\ \A k \in (call.index + 1)..Len(pre) : Data[k + 1] = pre[k]

C8_Witness ==
    /\ call.op = "insert"
    /\ ret = "ok"
    /\ call.index = 1
    /\ Len(pre) = 2
    /\ pre[1] # pre[2]
    /\ Resolved.value \notin {pre[1], pre[2]}

\* C9: a set or insert updates the parameter table exactly once, with the
\* instruction it stored and after the slot was overwritten, if and only if
\* it stored an instruction whose operation is an Instruction; no other
\* facade call updates it.
C9_ParameterTable ==
    IF call.op \in {"set", "insert"} /\ ret = "ok"
       /\ IsInstruction(Resolved.value.operation)
    THEN /\ Len(notes) = 1
         /\ notes[1].value = Resolved.value
         /\ notes[1].seen = Data
         /\ Data[PyIndex(Len(Data), call.index) + 1] = notes[1].value
    ELSE notes = <<>>

C9_Witness ==
    /\ call.op \in {"set", "insert"}
    /\ ret = "ok"
    /\ Len(notes) = 1
    /\ \E k \in DOMAIN Data : Data[k].operation = "Operation"

\* what a caller holding facade f reads as its contents
View(f) == copy(stores[FacadeStore(f)]).list

\* C10: the facades over the circuit have no state of their own: at every
\* moment all of them read the same contents, which are the contents of the
\* circuit's current store, also after the circuit has replaced its store;
\* what a read returned is what the circuit's store held, and an insert or
\* delete through one facade shows in the length read through every other.
C10_PureView ==
    /\ \A f \in Built, g \in Built : View(f) = View(g)
    /\ \A f \in Built : View(f) = Data
    /\ call.op = "copy" => out.list = Data
    /\ call.op = "len" => out.num = Len(Data)
    /\ (call.op = "get" /\ ret = "ok")
       => out.list = <<Data[PyIndex(Len(Data), call.index) + 1]>>
    /\ (call.op = "insert" /\ ret = "ok")
       => \A g \in Built : Len(View(g)) = Len(pre) + 1
    /\ (call.op = "delete" /\ ret = "ok")
       => \A g \in Built : Len(View(g)) = Len(pre) - 1

C10_Witness ==
    /\ Built = Facades
    /\ built_on[1] # built_on[2]
    /\ call.op = "insert"
    /\ call.facade = 1
    /\ circuit_data = built_on[2]
    /\ ret = "ok"
    /\ Len(Data) = 2

\* the key and the reverse flag of the last sort call
SortedBy == call.value.operation

Reversed == call.index = 1

KeysOf(d) == {SortKey(SortedBy, d[k]) : k \in DOMAIN d}

WithKey(d, n) == SelectSeq(d, LAMBDA x : SortKey(SortedBy, x) = n)

\* C11: sort leaves the store with the same length, in key order (reversed
\* if asked), and for every key the elements with that key are the ones the
\* store had, in the order it had them (same multiset, stable); the result
\* is the sorted plain-sequence copy; the call never fails, updates no
\* parameter table and changes no element, as it would if it resolved them.
C11_StableSort ==
    call.op = "sort"
    => /\ Len(Data) = Len(pre)
       /\ \A i \in DOMAIN Data, j \in DOMAIN Data :
            i < j => ~Before(SortedBy, Reversed, Data[j], Data[i])
       /\ \A n \in KeysOf(pre) \cup KeysOf(Data) : WithKey(Data, n) = WithKey(pre, n)
       /\ Data = ListSort(copy(pre).list, SortedBy, Reversed)
       /\ ret = "ok"
       /\ notes = <<>>

C11_Witness ==
    /\ call.op = "sort"
    /\ Reversed
    /\ Len(pre) = 3
    /\ Data # pre
    /\ \E i \in DOMAIN pre, j \in DOMAIN pre :
         /\ i < j
         /\ pre[i] # pre[j]
         /\ SortKey(SortedBy, pre[i]) = SortKey(SortedBy, pre[j])

\* C12: delete(index) with an index in range removes exactly the element
\* at that index and keeps the others in order; with an index out of range
\* it raises IndexError and leaves the store as it was.
C12_Delete ==
    call.op = "delete"
    => IF InRange(Len(pre), call.index)
       THEN /\ ret = "ok"
            /\ Len(Data) = Len(pre) - 1
            /\ \A k \in DOMAIN Data :
                 Data[k] = IF k <= PyIndex(Len(pre), call.index)
                           THEN pre[k] ELSE pre[k + 1]
       ELSE ret = "IndexError" /\ Data = pre

C12_Witness ==
    /\ call.op = "delete"
    /\ Len(pre) = 3
    /\ call.index = 0 - 2
    /\ pre[1] # pre[2] /\ pre[2] # pre[3]
    /\ ret = "ok"

\* the qubits a value names, before any broadcasting
NamedQubits(value) ==
    Flatten([k \in DOMAIN value.qargs |-> qbit_argument_conversion(value.qargs[k])])

C18_EmptyBroadcast ==
    /\ (call.op \in {"set", "insert"}) => Resolved.err \in CircuitErrors \cup {"ok"}
    /\ (/\ call.op = "insert"
        /\ call.index \in 0..Len(pre)
        /\ Broadcasts(call.value)
        /\ Len(BroadcastOf(call.value)) = 0)
       => Data = pre

\* C19: a successful insert(index, value), at any integer index, leaves the
\* store that inserting the resolved instruction into the plain sequence at
\* that index gives.
C19_InsertAsList ==
    (call.op = "insert" /\ ret = "ok")
    => /\ Data = ListInsert(pre, call.index, Resolved.value)
       /\ Len(Data) = Len(pre) + 1

\* the operation a value is stored with
StoredOperation(value) ==
    IF HasToInstruction(value.operation)
    THEN ToInstruction(value.operation) ELSE value.operation

\* the clbits a value names, before any broadcasting
NamedClbits(value) ==
    Flatten([k \in DOMAIN value.cargs |-> cbit_argument_conversion(value.cargs[k])])

\* the value has an Operation and broadcasts to one assignment, whose
\* qubits are pairwise distinct
Unambiguous(value) ==
    /\ Broadcasts(value)
    /\ Len(BroadcastOf(value)) = 1
    /\ ~HasDups(BroadcastOf(value)[1][1])

\* C15: set(i, (op, qubits, clbits)) with a well-formed operation whose
\* broadcast is one assignment with distinct qubits, at an index in range,
\* stores at i the CircuitInstruction built from the operation and the
\* assignment's qubits and clbits, and changes no other position.
C15_LegacyEquivalence ==
    (/\ call.op = "set"
     /\ InRange(Len(pre), call.index)
     /\ Unambiguous(call.value))
    => /\ ret = "ok"
       /\ Len(Data) = Len(pre)
       /\ \A k \in DOMAIN Data :
            Data[k] = IF k = PyIndex(Len(pre), call.index) + 1
                      THEN CircuitInstruction(StoredOperation(call.value),
                                              BroadcastOf(call.value)[1][1],
                                              BroadcastOf(call.value)[1][2])
                      ELSE pre[k]

C15_Witness ==
    /\ call.op = "set"
    /\ Len(pre) = 2
    /\ Unambiguous(call.value)
    /\ call.value.operation = "Operation"
    /\ Len(call.value.qargs) = 1
    /\ Len(call.value.cargs) = 1
    /\ pre[1] # Data[1]
    /\ ret = "ok"

\* C17: a set or insert, at an index in range, whose one assignment has
\* distinct qubits and a clbit list that repeats a reference succeeds and
\* stores the instruction with those clbits.
C17_ClbitDuplicates ==
    (/\ call.op = "set" \/ (call.op = "insert" /\ call.index \in 0..Len(pre))
     /\ call.op = "set" => InRange(Len(pre), call.index)
     /\ Unambiguous(call.value)
     /\ HasDups(BroadcastOf(call.value)[1][2]))
    => /\ ret = "ok"
       /\ Data[PyIndex(Len(Data), call.index) + 1].clbits = NamedClbits(call.value)
       /\ Data[PyIndex(Len(Data), call.index) + 1].qubits = NamedQubits(call.value)

C17_Witness ==
    /\ call.op = "insert"
    /\ Unambiguous(call.value)
    /\ Len(call.value.qargs) = 1
    /\ HasDups(NamedClbits(call.value))
    /\ ret = "ok"
    /\ Len(Data) = 2
    /\ HasDups(Data[1].clbits)

PlainMutations == {"plain_append", "plain_remove", "plain_replace", "plain_reverse"}

\* C13: copy() returns the store's contents as they are at the call, in
\* a sequence of its own; changing that sequence afterwards (append, remove,
\* replace, reorder) changes no get or length result of the facade, and
\* changing the store through the facade does not change the sequence.
C13_CopyIndependence ==
    [][/\ call'.op = "copy"
          => /\ out'.list = Data
             /\ stores'[held'] = Data
             /\ Data' = Data
       /\ call'.op \in PlainMutations
          => /\ \A i \in Indices : getitem(View(1)', i) = getitem(View(1), i)
             /\ length(View(1)') = length(View(1))
       /\ (call'.op \in Mutators /\ held # 0)
          => /\ held' = held
             /\ stores'[held] = stores[held]]_vars

C13_Witness ==
    /\ call.op = "plain_append"
    /\ held # 0
    /\ Len(Data) = 2
    /\ pre = Data
    /\ Len(stores[held]) = 3

Operators == {"lt", "le", "eq", "gt", "ge", "add", "radd", "mul", "rmul"}

\* C14: an operator call changes neither the store nor the other operand;
\* == is 1 exactly for an operand with the same elements in the same
\* order, + gives the facade's contents followed by the operand's and the
\* reflected + the operand's followed by the facade's, and both * give the
\* contents n times over (none for n <= 0); an operand equal to the
\* contents is <= and >= but neither < nor >.
C14_Operators ==
    [][call'.op \in Operators
       => LET a == Data
              b == IF call'.value.operation = "facade" THEN Data ELSE stores[held]
              r == out'.list
              n == IF call'.index > 0 THEN call'.index ELSE 0
          IN  /\ stores' = stores
              /\ held' = held
              /\ circuit_data' = circuit_data
              /\ ret' = "ok"
              /\ call'.op = "eq"
                 => (out'.num = 1
                     <=> (Len(a) = Len(b) /\ \A k \in DOMAIN a : a[k] = b[k]))
              /\ call'.op = "add"
                 => /\ Len(r) = Len(a) + Len(b)
                    /\ \A k \in DOMAIN a : r[k] = a[k]
                    /\ \A k \in DOMAIN b : r[Len(a) + k] = b[k]
              /\ call'.op = "radd"
                 => /\ Len(r) = Len(b) + Len(a)
                    /\ \A k \in DOMAIN b : r[k] = b[k]
                    /\ \A k \in DOMAIN a : r[Len(b) + k] = a[k]
              /\ call'.op \in {"mul", "rmul"}
                 => /\ Len(r) = Len(a) * n
                    /\ \A k \in DOMAIN r : r[k] = a[((k - 1) % Len(a)) + 1]
              /\ (call'.op \in {"le", "ge"} /\ a = b) => out'.num = 1
              /\ (call'.op \in {"lt", "gt"} /\ a = b) => out'.num = 0]_vars

C14_Witness ==
    /\ call.op = "radd"
    /\ call.value.operation = "plain"
    /\ Len(Data) = 2
    /\ Len(stores[held]) = 1
    /\ stores[held][1] # Data[1]
    /\ out.list = <<stores[held][1], Data[1], Data[2]>>

====
